---- MODULE Spec2Model ----
\* State-machine model of camisole's execution pipeline (camisole/models.py):
\* Lang.run (compile -> per-test execute with short-circuit and fatal rules).
\* Python dicts are records whose DOMAIN is the set of keys present; Python
\* values that may be None, str or bytes are tagged records.
EXTENDS Integers, Sequences, FiniteSets, TLC

\* ------------------------------------------------------------------ bounds
MaxTests == 2
MaxInteractiveTests == 2
MaxChain == 2
MaxRegistrations == 3
NumBoxes == 2

\* ------------------------------------------------------------ Python values
None == [t |-> "None"]
Bytes(s) == [t |-> "bytes", v |-> s]
Str(s) == [t |-> "str", v |-> s]
EmptyDict == [k \in {} |-> 0]

\* bool(x) is False for None and for an empty str / bytes
Falsy(x) == x.t = "None" \/ x.v = <<>>

\* one code point -> its UTF-8 bytes (code points below 2048 suffice here)
Utf8Char(c) == IF c < 128 THEN <<c>> ELSE <<192 + (c \div 64), 128 + (c % 64)>>

RECURSIVE Utf8(_)
Utf8(s) == IF s = <<>> THEN <<>> ELSE Utf8Char(Head(s)) \o Utf8(Tail(s))

\* camisole.utils.force_bytes: str is encoded, bytes pass through
force_bytes(x) == IF x.t = "str" THEN Bytes(Utf8(x.v)) ELSE x

\* bytes.strip() leaves something iff some byte is not ASCII whitespace
Whitespace == {9, 10, 11, 12, 13, 32}
StripTruthy(b) == \E k \in 1..Len(b.v) : b.v[k] \notin Whitespace

\* '{:03d}'.format(i)
Digit(d) == CASE d = 0 -> "0" [] d = 1 -> "1" [] d = 2 -> "2" [] d = 3 -> "3"
              [] d = 4 -> "4" [] d = 5 -> "5" [] d = 6 -> "6" [] d = 7 -> "7"
              [] d = 8 -> "8" [] d = 9 -> "9"

RECURSIVE DecStr(_)
DecStr(n) == IF n < 10 THEN Digit(n) ELSE DecStr(n \div 10) \o Digit(n % 10)

RECURSIVE ZeroPad(_, _)
ZeroPad(s, width) == IF Len(s) >= width THEN s ELSE ZeroPad("0" \o s, width)

Format03d(n) == ZeroPad(DecStr(n), 3)

\* ------------------------------------------------------------- descriptors
\* The two descriptors of camisole/languages: a compiled and an interpreted one.
CXX23 == [name |-> "C++23", source_ext |-> ".cc", compiler |-> TRUE,
          interpreter |-> FALSE]
Pypy == [name |-> "pypy", source_ext |-> ".pypy", compiler |-> FALSE,
         interpreter |-> TRUE]
Langs == {CXX23, Pypy}

source_filename(l) == "source" \o l.source_ext

execute_filename(l) ==
    IF ~l.compiler /\ l.source_ext # "" THEN "compiled" \o l.source_ext
    ELSE "compiled"

\* the file write_binary leaves in the sandbox working directory
write_binary(l, bin) == [path |-> execute_filename(l), content |-> bin]

\* ------------------------------------------------------- language registry
\* A class definition as Lang.__init_subclass__ receives it: the class
\* (__qualname__), the 'name' and 'register' keywords of the class statement.
\* kwname "" stands for name=None ('name or cls.__name__' treats both alike).
CXX23Class == [qualname |-> "CXX23", kwname |-> "C++23", register |-> TRUE]
PypyClass == [qualname |-> "Pypy", kwname |-> "pypy", register |-> TRUE]

\* str.lower() on the names that occur
Lower(s) ==
    CASE s = "C++23" -> "c++23"
      [] s = "CXX23" -> "cxx23"
      [] s = "Pypy" -> "pypy"
      [] s = "PyPy" -> "pypy"
      [] s = "PYPY" -> "pypy"
      [] s = "PipelineLang" -> "pipelinelang"
      [] s = "COBOL99" -> "cobol99"
      [] OTHER -> s

\* cls.name = name or cls.__name__
cls_name(c) == IF c.kwname # "" THEN c.kwname ELSE c.qualname
registry_name(c) == Lower(cls_name(c))

\* d[key] = val
SetItem(d, key, val) ==
    [k \in DOMAIN d \cup {key} |-> IF k = key THEN val ELSE d[k]]

\* __init_subclass__ on _full_registry: written before the binaries are probed
full_registry_after(full, c) ==
    IF ~c.register THEN full ELSE SetItem(full, registry_name(c), c.qualname)

\* __init_subclass__ on _registry: 'accessible' is whether every required
\* binary passed os.access(X_OK)
\* faulty variant: the first registration of a name is kept
registry_after_FirstWins(reg, c, accessible) ==
    IF ~c.register \/ ~accessible \/ registry_name(c) \in DOMAIN reg THEN reg
    ELSE SetItem(reg, registry_name(c), c.qualname)
registry_after(reg, c, accessible) ==
    IF ~c.register \/ ~accessible THEN reg
    ELSE SetItem(reg, registry_name(c), c.qualname)

\* the registries once camisole/languages is imported on a host that has
\* both g++-14 and pypy3
LoadedClasses == <<[cls |-> CXX23Class, accessible |-> TRUE],
                   [cls |-> PypyClass, accessible |-> TRUE]>>
LoadedRegistry ==
    registry_after(registry_after(EmptyDict, CXX23Class, TRUE), PypyClass, TRUE)
LoadedFullRegistry ==
    full_registry_after(full_registry_after(EmptyDict, CXX23Class), PypyClass)
\* the descriptor of a loaded class
DescriptorOf(qualname) == IF qualname = "CXX23" THEN CXX23 ELSE Pypy

\* ------------------------------------------------------------------ inputs
Sources == {Str(<<>>), Str(<<233>>), Bytes(<<0, 255>>)}

OptKey(key, present, val) == IF present THEN [k \in {key} |-> val] ELSE EmptyDict

\* Test Spec dicts: optional 'name', optional 'fatal'
TestSpecs == {OptKey("name", hn, "second") @@ OptKey("fatal", hf, TRUE) :
                hn \in BOOLEAN, hf \in BOOLEAN}

TestLists == UNION {[1..n -> TestSpecs] : n \in 0..MaxTests}

\* Option bags: 'source', optional 'tests', optional 'all_fatal'
OptionBags == {[source |-> s] @@ OptKey("tests", ht, ts) @@ OptKey("all_fatal", ha, af) :
                 s \in Sources, ht \in BOOLEAN, ts \in TestLists,
                 ha \in BOOLEAN, af \in BOOLEAN}

\* ------------------------------------------------------- sandbox outcomes
Statuses == {"OK", "TIMED_OUT", "RUNTIME_ERROR", "SIGNALED"}
Retcodes == {0, 1}

\* Run Metadata of a completed sandbox run
RunMeta(status, exitcode) ==
    [cg_mem |-> 1, cg_oom_killed |-> 0, csw_forced |-> 1, csw_voluntary |-> 1,
     exitcode |-> exitcode, exitsig |-> 0, exitsig_message |-> None,
     killed |-> FALSE, max_rss |-> 1, message |-> None, status |-> status,
     time |-> 1, time_wall |-> 1]

\* Isolator.info after a run
IsolatorInfo(status, retcode, stderr) ==
    [stdout |-> Bytes(<<>>), stderr |-> stderr, exitcode |-> retcode,
     meta |-> RunMeta(status, retcode)]

short_meta_defaults ==
    [cg_mem |-> 0, cg_oom_killed |-> 0, csw_forced |-> 0, csw_voluntary |-> 0,
     exitcode |-> 0, exitsig |-> 0, exitsig_message |-> None,
     killed |-> FALSE, max_rss |-> 0, message |-> None,
     status |-> "SHORT_CIRCUIT", time |-> 0, time_wall |-> 0]

\* result of one compile-stage sandbox run: the tool's retcode, the captured
\* stderr, and what read_compiled finds at the output path (None: no file)
CompileOutcomes ==
    {[retcode |-> 1, stderr |-> Bytes(<<101>>), compiled |-> None],
     [retcode |-> 1, stderr |-> Bytes(<<101>>), compiled |-> Bytes(<<127, 69>>)],
     [retcode |-> 0, stderr |-> Bytes(<<>>), compiled |-> None],
     [retcode |-> 0, stderr |-> Bytes(<<10>>), compiled |-> None],
     [retcode |-> 0, stderr |-> Bytes(<<101>>), compiled |-> None],
     [retcode |-> 0, stderr |-> Bytes(<<>>), compiled |-> Bytes(<<>>)],
     [retcode |-> 0, stderr |-> Bytes(<<>>), compiled |-> Bytes(<<127, 69>>)]}

\* b'\n\n' and b'Cannot find result binary.\n'
NewlineNewline == <<10, 10>>
CannotFindResultBinary ==
    <<67, 97, 110, 110, 111, 116, 32, 102, 105, 110, 100, 32, 114, 101, 115,
      117, 108, 116, 32, 98, 105, 110, 97, 114, 121, 46, 10>>

\* ------------------------------------------------------------------- state
VARIABLES
    lang,        \* the descriptor the request names
    opts,        \* self.opts, the request's option bag
    pc,          \* position of the request's coroutine
    result,      \* the result dict of Lang.run
    binary,      \* the local 'binary' of Lang.run
    i,           \* loop index of run_tests
    is_shorted,  \* the is_shorted flag of run_tests
    held,        \* sandbox handles currently held: [box, stage, idx]
    root_tmp,    \* the compile stage's host-side /tmp: none, live, cleaned
    log,         \* history: every command run in a sandbox, in order
    registry,       \* Lang._registry: lowercase name -> loaded class
    full_registry,  \* Lang._full_registry: lowercase name -> class
    registered,     \* history: every class definition seen, in order
    response        \* the payload the HTTP wrapper answers with, None before

serverVars == <<registry, full_registry, registered, response>>
vars == <<lang, opts, pc, result, binary, i, is_shorted, held, root_tmp, log,
          registry, full_registry, registered, response>>

Boxes == 0..(NumBoxes - 1)

\* the server has imported its languages and has not answered yet
ServerLoaded ==
    /\ registry = LoadedRegistry
    /\ full_registry = LoadedFullRegistry
    /\ registered = LoadedClasses
    /\ response = None

\* opts.get('tests', [{}])
Tests(o) == IF "tests" \in DOMAIN o THEN o.tests ELSE <<EmptyDict>>

\* opts.get('all_fatal', False)
AllFatal(o) == IF "all_fatal" \in DOMAIN o THEN o.all_fatal ELSE FALSE

\* test.get('fatal', False)
Fatal(test) == IF "fatal" \in DOMAIN test THEN test.fatal ELSE FALSE

\* ------------------------------------------------------ sandbox driver
\* Isolator.__aenter__: reserves a box no handle of the pool holds
FreeBoxes(hs) == Boxes \ {h.box : h \in hs}
IsolatorEnter(hs, b, stage, idx) == hs \cup {[box |-> b, stage |-> stage, idx |-> idx]}

\* Isolator.__aexit__: cleans the box up and returns its id to the pool
IsolatorExit(hs, stage) == {h \in hs : h.stage # stage}

\* faulty variant: the handle is not released when the block is left
async_with_exit_Leak(hs, stage, raised) == hs

\* faulty variant: the handle is released only when the block ends normally
async_with_exit_NoFinally(hs, stage, raised) ==
    IF raised THEN hs ELSE IsolatorExit(hs, stage)

\* leaving an 'async with isolator:' block, normally or by an exception
\* (raised = TRUE): Python calls __aexit__ either way
async_with_exit(hs, stage, raised) == IsolatorExit(hs, stage)

\* ------------------------------------------------- Lang.run_compilation
\* faulty variant: the retcode of the compile stage is not looked at
run_compilation_NoRetcodeCheck(res, cretcode, info, bin) ==
    LET r1 == [compile |-> info] @@ res
    IN  IF bin = None THEN [result |-> r1, binary |-> None]
        ELSE [result |-> r1, binary |-> bin]

\* the part of run_compilation after 'await self.compile()'
run_compilation(res, cretcode, info, bin) ==
    LET r1 == [compile |-> info] @@ res
        sep == IF StripTruthy(r1.compile.stderr) THEN NewlineNewline ELSE <<>>
        appended == Bytes(r1.compile.stderr.v \o sep \o CannotFindResultBinary)
    IN  IF cretcode # 0 THEN [result |-> r1, binary |-> None]
        ELSE IF bin = None
             THEN [result |-> [r1 EXCEPT !.compile.stderr = appended],
                   binary |-> None]
             ELSE [result |-> r1, binary |-> bin]

\* faulty variant: the source is handed on as it came, not as bytes
run_compilation_interpreted_Raw(res, o) == [result |-> res, binary |-> o.source]

\* run_compilation of a descriptor without compiler
run_compilation_interpreted(res, o) ==
    [result |-> res, binary |-> force_bytes(o.source)]

\* Lang.run: 'if not binary: return result'
RunReturnsEarly(bin) == Falsy(bin)

\* ------------------------------------------------------- Lang.run_tests
\* result['tests'] = [{}] * len(tests), only 'if tests'
InitialTests(res, tests) ==
    IF tests # <<>> THEN [tests |-> [k \in 1..Len(tests) |-> EmptyDict]] @@ res
    ELSE res

\* faulty variant: default names count from 1
test_name_OneBased(test, idx) ==
    IF "name" \in DOMAIN test THEN test.name ELSE "test" \o Format03d(idx + 1)

test_name(test, idx) ==
    IF "name" \in DOMAIN test THEN test.name ELSE "test" \o Format03d(idx)

ShortRecord(name) == [name |-> name, meta |-> short_meta_defaults]

\* {'name': test_name, **info}
TestRecord(name, info) == info @@ [name |-> name]

\* faulty variant: every status but OK sets the flag
SetsShorted_AnyFailure(status) == status # "OK"
\* faulty variant: only a timeout short-circuits
SetsShorted_OnlyTimeout(status) == status = "TIMED_OUT"

SetsShorted(status) == status \in {"TIMED_OUT", "RUNTIME_ERROR"}

\* faulty variants: any non-zero retcode breaks; all_fatal is not looked at
FatalBreak_AnyNonZero(retcode, test, o) == retcode # 0
FatalBreak_IgnoresAllFatal(retcode, test, o) == retcode # 0 /\ Fatal(test)

FatalBreak(retcode, test, o) == retcode # 0 /\ (Fatal(test) \/ AllFatal(o))

\* Lang.run from 'if not binary' to the first iteration of the test loop
EnterRunTests(res, bin) ==
    /\ binary' = bin
    /\ IF RunReturnsEarly(bin)
       THEN /\ result' = res
            /\ pc' = "returned"
            /\ UNCHANGED <<i, is_shorted>>
       ELSE /\ result' = InitialTests(res, Tests(opts))
            /\ is_shorted' = FALSE
            /\ i' = 0
            /\ pc' = IF Len(Tests(opts)) = 0 THEN "returned" ELSE "loop"

\* ------------------------------------------------------------------ actions
Init ==
    /\ lang \in Langs
    /\ opts \in OptionBags
    /\ pc = "start"
    /\ result = EmptyDict
    /\ binary = None
    /\ i = 0
    /\ is_shorted = FALSE
    /\ held = {}
    /\ root_tmp = "none"
    /\ log = <<>>
    /\ ServerLoaded

\* Lang.compile up to 'async with isolator': the /tmp playground is created,
\* then a sandbox is acquired
CompileAcquire ==
    /\ pc = "start"
    /\ lang.compiler
    /\ \E b \in FreeBoxes(held) : held' = IsolatorEnter(held, b, "compile", 0)
    /\ root_tmp' = "live"
    /\ pc' = "compile_box"
    /\ UNCHANGED <<lang, opts, result, binary, i, is_shorted, log>>
    /\ UNCHANGED serverVars

\* the acquisition raises (no free box, init failed)
CompileAcquireFail ==
    /\ pc = "start"
    /\ lang.compiler
    /\ root_tmp' = "live"
    /\ pc' = "raised"
    /\ UNCHANGED <<lang, opts, result, binary, i, is_shorted, held, log>>
    /\ UNCHANGED serverVars

\* the body of compile's 'async with' runs to its end, then run_compilation
\* and run continue up to the first await of run_tests
CompileRun ==
    /\ pc = "compile_box"
    /\ \E out \in CompileOutcomes :
         LET info == IsolatorInfo(IF out.retcode = 0 THEN "OK" ELSE "RUNTIME_ERROR",
                                  out.retcode, out.stderr)
             rc == run_compilation(result, out.retcode, info, out.compiled)
         IN  /\ log' = Append(log, [stage |-> "compile", idx |-> 0,
                                    file |-> [path |-> source_filename(lang),
                                              content |-> force_bytes(opts.source)],
                                    retcode |-> out.retcode,
                                    status |-> info.meta.status,
                                    stderr |-> out.stderr,
                                    compiled |-> out.compiled])
             /\ EnterRunTests(rc.result, rc.binary)
    /\ held' = async_with_exit(held, "compile", FALSE)
    /\ root_tmp' = "cleaned"
    /\ UNCHANGED <<lang, opts>>
    /\ UNCHANGED serverVars

\* an exception inside compile's 'async with' (writing the source, the run):
\* the sandbox is released, root_tmp.cleanup() is skipped
CompileRaise ==
    /\ pc = "compile_box"
    /\ held' = async_with_exit(held, "compile", TRUE)
    /\ pc' = "raised"
    /\ UNCHANGED <<lang, opts, result, binary, i, is_shorted, root_tmp, log>>
    /\ UNCHANGED serverVars

\* run_compilation without compiler, then run up to the first await
RunInterpreted ==
    /\ pc = "start"
    /\ ~lang.compiler
    /\ LET rc == run_compilation_interpreted(result, opts)
       IN  EnterRunTests(rc.result, rc.binary)
    /\ UNCHANGED <<lang, opts, held, root_tmp, log>>
    /\ UNCHANGED serverVars

\* one iteration of run_tests with is_shorted set
TestShort ==
    /\ pc = "loop"
    /\ is_shorted
    /\ LET test == Tests(opts)[i + 1]
       IN  result' = [result EXCEPT !.tests[i + 1] = ShortRecord(test_name(test, i))]
    /\ i' = i + 1
    /\ pc' = IF i + 1 = Len(Tests(opts)) THEN "returned" ELSE "loop"
    /\ UNCHANGED <<lang, opts, binary, is_shorted, held, root_tmp, log>>
    /\ UNCHANGED serverVars

\* Lang.execute up to 'async with isolator'
ExecuteAcquire ==
    /\ pc = "loop"
    /\ ~is_shorted
    /\ \E b \in FreeBoxes(held) : held' = IsolatorEnter(held, b, "test", i)
    /\ pc' = "exec_box"
    /\ UNCHANGED <<lang, opts, result, binary, i, is_shorted, root_tmp, log>>
    /\ UNCHANGED serverVars

ExecuteAcquireFail ==
    /\ pc = "loop"
    /\ ~is_shorted
    /\ pc' = "raised"
    /\ UNCHANGED <<lang, opts, result, binary, i, is_shorted, held, root_tmp, log>>
    /\ UNCHANGED serverVars

\* the body of execute's 'async with' runs to its end, and run_tests records
\* the test and decides how the loop goes on
ExecuteRun ==
    /\ pc = "exec_box"
    /\ \E rc \in Retcodes, st \in Statuses :
         LET test == Tests(opts)[i + 1]
             info == IsolatorInfo(st, rc, Bytes(<<>>))
             brk == FatalBreak(rc, test, opts)
         IN  /\ log' = Append(log, [stage |-> "test", idx |-> i,
                                    file |-> write_binary(lang, binary),
                                    retcode |-> rc, status |-> st])
             /\ result' = [result EXCEPT
                             !.tests[i + 1] = TestRecord(test_name(test, i), info)]
             /\ is_shorted' = (is_shorted \/ SetsShorted(st))
             /\ i' = IF brk THEN i ELSE i + 1
             /\ pc' = IF brk \/ i + 1 = Len(Tests(opts)) THEN "returned" ELSE "loop"
    /\ held' = async_with_exit(held, "test", FALSE)
    /\ UNCHANGED <<lang, opts, binary, root_tmp>>
    /\ UNCHANGED serverVars

\* an exception inside execute's 'async with' (write_binary, the run)
ExecuteRaise ==
    /\ pc = "exec_box"
    /\ held' = async_with_exit(held, "test", TRUE)
    /\ pc' = "raised"
    /\ UNCHANGED <<lang, opts, result, binary, i, is_shorted, root_tmp, log>>
    /\ UNCHANGED serverVars

\* the request is cancelled while it awaits a sandboxed run
Cancel ==
    /\ pc \in {"compile_box", "exec_box"}
    /\ held' = async_with_exit(held, IF pc = "compile_box" THEN "compile" ELSE "test",
                                TRUE)
    /\ pc' = "cancelled"
    /\ UNCHANGED <<lang, opts, result, binary, i, is_shorted, root_tmp, log>>
    /\ UNCHANGED serverVars

\* the TemporaryDirectory object of a compile() that was left by an exception
\* or a cancellation is reclaimed at some later time, when the frame that
\* holds it is garbage-collected: its finalizer removes the directory
ImplicitCleanup ==
    /\ pc \in {"raised", "cancelled", "responded"}
    /\ DOMAIN lang # {"prog", "interact"}
    /\ root_tmp = "live"
    /\ root_tmp' = "cleaned"
    /\ UNCHANGED <<lang, opts, pc, result, binary, i, is_shorted, held, log>>
    /\ UNCHANGED serverVars

Next ==
    \/ CompileAcquire
    \/ CompileAcquireFail
    \/ CompileRun
    \/ CompileRaise
    \/ RunInterpreted
    \/ TestShort
    \/ ExecuteAcquire
    \/ ExecuteAcquireFail
    \/ ExecuteRun
    \/ ExecuteRaise
    \/ Cancel
    \/ ImplicitCleanup

Spec == Init /\ [][Next]_vars

\* ======================================================= InteractiveLang
\* In an interactive request lang, opts, result and binary hold one value per
\* role: lang.prog / lang.interact are the descriptors of lang_prog and
\* lang_interact, opts.prog / opts.interact their option bags, result.prog /
\* result.interact are result_prog and result_interact, binary.prog /
\* binary.interact are binary_prog and binary_interact; root_tmp holds the
\* state of each role's compile playground.
Roles == {"prog", "interact"}

\* Test Specs of the interact sub-request: optional 'name', 'fatal', 'stdin'
InteractiveTestSpecs ==
    {EmptyDict,
     [stdin |-> Str(<<>>)],
     [stdin |-> Str(<<120>>)],
     [stdin |-> Str(<<120>>), fatal |-> TRUE],
     [stdin |-> Str(<<120>>), name |-> "second"]}

InteractiveTestLists ==
    UNION {[1..n -> InteractiveTestSpecs] : n \in 0..MaxInteractiveTests}

InteractiveSources == {Str(<<>>), Bytes(<<0, 255>>)}

\* the prog sub-request: its source, and in one bag a 'tests' list and an
\* 'all_fatal' of its own
ProgOptionBags ==
    {[source |-> s] : s \in InteractiveSources} \cup
        {[source |-> Bytes(<<0, 255>>),
          tests |-> <<[name |-> "progtest", fatal |-> TRUE]>>,
          all_fatal |-> TRUE]}

InteractOptionBags ==
    {[source |-> s] @@ OptKey("tests", ht, ts) @@ OptKey("all_fatal", ha, TRUE) :
       s \in InteractiveSources, ht \in BOOLEAN, ts \in InteractiveTestLists,
       ha \in BOOLEAN}

\* what the two sandboxes of one coupled run report
ProgOutcomes == {[retcode |-> rc, status |-> st] :
                   rc \in Retcodes, st \in {"OK", "TIMED_OUT", "RUNTIME_ERROR"}}
InteractOutcomes == {[retcode |-> 0, status |-> "OK"],
                     [retcode |-> 1, status |-> "RUNTIME_ERROR"]}

CompileStage(role) == IF role = "prog" THEN "compile_prog" ELSE "compile_interact"

\* InteractiveLang.execute: input_data
input_data(test) ==
    IF "stdin" \in DOMAIN test /\ ~Falsy(test.stdin) THEN force_bytes(test.stdin)
    ELSE None

\* InteractiveLang.run: 'if not binary_prog or not binary_interact: return'
\* faulty variant: only the program's artifact is looked at
InteractiveReturnsEarly_OnlyProg(bin) == Falsy(bin.prog)
InteractiveReturnsEarly(bin) == Falsy(bin.prog) \/ Falsy(bin.interact)

\* InteractiveLang.run_tests: both 'tests' lists preallocated, only 'if tests'
\* faulty variant: the program's list is sized by the prog sub-request's tests
InteractiveInitialTests_ProgOwnTests(res, tests) ==
    [prog |-> InitialTests(res.prog, Tests(opts.prog)),
     interact |-> InitialTests(res.interact, tests)]
InteractiveInitialTests(res, tests) ==
    [prog |-> InitialTests(res.prog, tests),
     interact |-> InitialTests(res.interact, tests)]

\* run_tests: 'if prog_info['meta']['status'] in (TIMED_OUT, RUNTIME_ERROR)'
\* faulty variant: the interactor's status shorts the rest as well
InteractiveSetsShorted_EitherStatus(prog_status, interact_status) ==
    SetsShorted(prog_status) \/ SetsShorted(interact_status)
InteractiveSetsShorted(prog_status, interact_status) ==
    prog_status \in {"TIMED_OUT", "RUNTIME_ERROR"}

\* faulty variant: the prog sub-request's 'all_fatal' breaks the loop as well
InteractiveFatalBreak_ProgAllFatal(prog_retcode, interact_retcode, test, o) ==
    /\ (prog_retcode # 0 \/ interact_retcode # 0)
    /\ (Fatal(test) \/ AllFatal(o) \/ AllFatal(opts.prog))
\* faulty variant: only the program's retcode can break the loop
InteractiveFatalBreak_OnlyProg(prog_retcode, interact_retcode, test, o) ==
    prog_retcode # 0 /\ (Fatal(test) \/ AllFatal(o))
InteractiveFatalBreak(prog_retcode, interact_retcode, test, o) ==
    (prog_retcode # 0 \/ interact_retcode # 0) /\ (Fatal(test) \/ AllFatal(o))

\* run_compilation of one role is over with (res, bin): the prog role hands
\* over to the interact role's compilation, the interact role to run's check
\* and the first iteration of run_tests
AfterCompilation(role, res, bin) ==
    LET results == [result EXCEPT ![role] = res]
        binaries == [binary EXCEPT ![role] = bin]
    IN  /\ binary' = binaries
        /\ IF role = "prog"
           THEN /\ result' = results
                /\ pc' = "interact_start"
                /\ UNCHANGED <<i, is_shorted>>
           ELSE IF InteractiveReturnsEarly(binaries)
           THEN /\ result' = results
                /\ pc' = "returned"
                /\ UNCHANGED <<i, is_shorted>>
           ELSE /\ result' = InteractiveInitialTests(results, Tests(opts.interact))
                /\ is_shorted' = FALSE
                /\ i' = 0
                /\ pc' = IF Len(Tests(opts.interact)) = 0 THEN "returned"
                         ELSE "interactive_loop"

StartPc(role) == IF role = "prog" THEN "prog_start" ELSE "interact_start"
CompileBoxPc(role) == IF role = "prog" THEN "prog_compile_box"
                      ELSE "interact_compile_box"

InitInteractive ==
    /\ lang \in [Roles -> Langs]
    /\ opts \in {[prog |-> op, interact |-> oi] :
                   op \in ProgOptionBags, oi \in InteractOptionBags}
    /\ pc = "prog_start"
    /\ result = [prog |-> EmptyDict, interact |-> EmptyDict]
    /\ binary = [prog |-> None, interact |-> None]
    /\ i = 0
    /\ is_shorted = FALSE
    /\ held = {}
    /\ root_tmp = [prog |-> "none", interact |-> "none"]
    /\ log = <<>>
    /\ ServerLoaded

\* Lang.compile of one role, up to 'async with isolator'
InteractiveCompileAcquire(role) ==
    /\ pc = StartPc(role)
    /\ lang[role].compiler
    /\ \E b \in FreeBoxes(held) :
         held' = IsolatorEnter(held, b, CompileStage(role), 0)
    /\ root_tmp' = [root_tmp EXCEPT ![role] = "live"]
    /\ pc' = CompileBoxPc(role)
    /\ UNCHANGED <<lang, opts, result, binary, i, is_shorted, log>>
    /\ UNCHANGED serverVars

InteractiveCompileAcquireFail(role) ==
    /\ pc = StartPc(role)
    /\ lang[role].compiler
    /\ root_tmp' = [root_tmp EXCEPT ![role] = "live"]
    /\ pc' = "raised"
    /\ UNCHANGED <<lang, opts, result, binary, i, is_shorted, held, log>>
    /\ UNCHANGED serverVars

\* the body of compile's 'async with' of one role, then its run_compilation
InteractiveCompileRun(role) ==
    /\ pc = CompileBoxPc(role)
    /\ \E out \in CompileOutcomes :
         LET info == IsolatorInfo(IF out.retcode = 0 THEN "OK" ELSE "RUNTIME_ERROR",
                                  out.retcode, out.stderr)
             rc == run_compilation(result[role], out.retcode, info, out.compiled)
         IN  /\ log' = Append(log, [stage |-> CompileStage(role), idx |-> 0,
                                    file |-> [path |-> source_filename(lang[role]),
                                              content |-> force_bytes(opts[role].source)],
                                    retcode |-> out.retcode,
                                    status |-> info.meta.status,
                                    stderr |-> out.stderr,
                                    compiled |-> out.compiled])
             /\ AfterCompilation(role, rc.result, rc.binary)
    /\ held' = async_with_exit(held, CompileStage(role), FALSE)
    /\ root_tmp' = [root_tmp EXCEPT ![role] = "cleaned"]
    /\ UNCHANGED <<lang, opts>>
    /\ UNCHANGED serverVars

InteractiveCompileRaise(role) ==
    /\ pc = CompileBoxPc(role)
    /\ held' = async_with_exit(held, CompileStage(role), TRUE)
    /\ pc' = "raised"
    /\ UNCHANGED <<lang, opts, result, binary, i, is_shorted, root_tmp, log>>
    /\ UNCHANGED serverVars

\* run_compilation of a role whose descriptor has no compiler
InteractiveInterpreted(role) ==
    /\ pc = StartPc(role)
    /\ ~lang[role].compiler
    /\ LET rc == run_compilation_interpreted(result[role], opts[role])
       IN  AfterCompilation(role, rc.result, rc.binary)
    /\ UNCHANGED <<lang, opts, held, root_tmp, log>>
    /\ UNCHANGED serverVars

\* one iteration of InteractiveLang.run_tests with is_shorted set
InteractiveTestShort ==
    /\ pc = "interactive_loop"
    /\ is_shorted
    /\ LET test == Tests(opts.interact)[i + 1]
           rec == ShortRecord(test_name(test, i))
       IN  result' = [result EXCEPT !.prog.tests[i + 1] = rec,
                                    !.interact.tests[i + 1] = rec]
    /\ i' = i + 1
    /\ pc' = IF i + 1 = Len(Tests(opts.interact)) THEN "returned"
             ELSE "interactive_loop"
    /\ UNCHANGED <<lang, opts, binary, is_shorted, held, root_tmp, log>>
    /\ UNCHANGED serverVars

\* 'async with isolator_prog, isolator_interact': the first acquisition
InteractiveAcquireProg ==
    /\ pc = "interactive_loop"
    /\ ~is_shorted
    /\ \E b \in FreeBoxes(held) : held' = IsolatorEnter(held, b, "test_prog", i)
    /\ pc' = "prog_box"
    /\ UNCHANGED <<lang, opts, result, binary, i, is_shorted, root_tmp, log>>
    /\ UNCHANGED serverVars

InteractiveAcquireProgFail ==
    /\ pc = "interactive_loop"
    /\ ~is_shorted
    /\ pc' = "raised"
    /\ UNCHANGED <<lang, opts, result, binary, i, is_shorted, held, root_tmp, log>>
    /\ UNCHANGED serverVars

\* the second acquisition, with the first handle held
InteractiveAcquireInteract ==
    /\ pc = "prog_box"
    /\ \E b \in FreeBoxes(held) : held' = IsolatorEnter(held, b, "test_interact", i)
    /\ pc' = "both_boxes"
    /\ UNCHANGED <<lang, opts, result, binary, i, is_shorted, root_tmp, log>>
    /\ UNCHANGED serverVars

\* the second acquisition raises or is cancelled: the first handle's
\* __aexit__ runs
InteractiveAcquireInteractFail ==
    /\ pc = "prog_box"
    /\ held' = async_with_exit(held, "test_prog", TRUE)
    /\ \E end \in {"raised", "cancelled"} : pc' = end
    /\ UNCHANGED <<lang, opts, result, binary, i, is_shorted, root_tmp, log>>
    /\ UNCHANGED serverVars

\* both handles of the block are left, the second one first
InteractiveExit(hs, raised) ==
    async_with_exit(async_with_exit(hs, "test_interact", raised), "test_prog", raised)

\* the body of execute's 'async with' with a seed input: both artifacts and
\* input.txt are written, the coupler runs both commands, and run_tests
\* records the pair and decides how the loop goes on
InteractiveExecuteRun ==
    /\ pc = "both_boxes"
    /\ input_data(Tests(opts.interact)[i + 1]) # None
    /\ \E po \in ProgOutcomes, io \in InteractOutcomes :
         LET test == Tests(opts.interact)[i + 1]
             prog_info == IsolatorInfo(po.status, po.retcode, Bytes(<<>>))
             interact_info == IsolatorInfo(io.status, io.retcode, Bytes(<<>>))
             brk == InteractiveFatalBreak(po.retcode, io.retcode, test, opts.interact)
         IN  /\ log' = Append(log, [stage |-> "test", idx |-> i,
                                    file |-> write_binary(lang.prog, binary.prog),
                                    interact_file |-> write_binary(lang.interact,
                                                                   binary.interact),
                                    input_file |-> [path |-> "input.txt",
                                                    content |-> input_data(test)],
                                    interact_argv_last |-> "input.txt",
                                    retcode |-> po.retcode, status |-> po.status,
                                    interact_retcode |-> io.retcode,
                                    interact_status |-> io.status])
             /\ result' = [result EXCEPT
                             !.prog.tests[i + 1] =
                                 TestRecord(test_name(test, i), prog_info),
                             !.interact.tests[i + 1] =
                                 TestRecord(test_name(test, i), interact_info)]
             /\ is_shorted' = (is_shorted
                                \/ InteractiveSetsShorted(po.status, io.status))
             /\ i' = IF brk THEN i ELSE i + 1
             /\ pc' = IF brk \/ i + 1 = Len(Tests(opts.interact)) THEN "returned"
                      ELSE "interactive_loop"
    /\ held' = InteractiveExit(held, FALSE)
    /\ UNCHANGED <<lang, opts, binary, root_tmp>>
    /\ UNCHANGED serverVars

\* without seed input f.write(None) raises TypeError inside the block
InteractiveExecuteNoInput ==
    /\ pc = "both_boxes"
    /\ input_data(Tests(opts.interact)[i + 1]) = None
    /\ held' = InteractiveExit(held, TRUE)
    /\ pc' = "raised"
    /\ UNCHANGED <<lang, opts, result, binary, i, is_shorted, root_tmp, log>>
    /\ UNCHANGED serverVars

\* any other exception inside the block (write_binary, the coupled run)
InteractiveExecuteRaise ==
    /\ pc = "both_boxes"
    /\ held' = InteractiveExit(held, TRUE)
    /\ pc' = "raised"
    /\ UNCHANGED <<lang, opts, result, binary, i, is_shorted, root_tmp, log>>
    /\ UNCHANGED serverVars

\* the request is cancelled while it awaits a compile run or the coupled run
InteractiveCancel ==
    /\ pc \in {"prog_compile_box", "interact_compile_box", "both_boxes"}
    /\ held' = IF pc = "both_boxes" THEN InteractiveExit(held, TRUE)
               ELSE async_with_exit(held, IF pc = "prog_compile_box"
                                          THEN "compile_prog"
                                          ELSE "compile_interact", TRUE)
    /\ pc' = "cancelled"
    /\ UNCHANGED <<lang, opts, result, binary, i, is_shorted, root_tmp, log>>
    /\ UNCHANGED serverVars

\* the same late reclamation for one role's compile playground
InteractiveImplicitCleanup(role) ==
    /\ pc \in {"raised", "cancelled", "responded"}
    /\ DOMAIN lang = Roles
    /\ root_tmp[role] = "live"
    /\ root_tmp' = [root_tmp EXCEPT ![role] = "cleaned"]
    /\ UNCHANGED <<lang, opts, pc, result, binary, i, is_shorted, held, log>>
    /\ UNCHANGED serverVars

NextInteractive ==
    \/ \E role \in Roles : InteractiveCompileAcquire(role)
    \/ \E role \in Roles : InteractiveCompileAcquireFail(role)
    \/ \E role \in Roles : InteractiveCompileRun(role)
    \/ \E role \in Roles : InteractiveCompileRaise(role)
    \/ \E role \in Roles : InteractiveInterpreted(role)
    \/ InteractiveTestShort
    \/ InteractiveAcquireProg
    \/ InteractiveAcquireProgFail
    \/ InteractiveAcquireInteract
    \/ InteractiveAcquireInteractFail
    \/ InteractiveExecuteRun
    \/ InteractiveExecuteNoInput
    \/ InteractiveExecuteRaise
    \/ InteractiveCancel
    \/ \E role \in Roles : InteractiveImplicitCleanup(role)

SpecInteractive == InitInteractive /\ [][NextInteractive]_vars

\* ================================================================ claims
\* What the request asks for, read off the request alone.
ReqTests == IF "tests" \in DOMAIN opts THEN opts.tests ELSE <<EmptyDict>>
ReqN == Len(ReqTests)
ReqFatalAt(k) ==
    \/ ("fatal" \in DOMAIN ReqTests[k + 1] /\ ReqTests[k + 1].fatal)
    \/ ("all_fatal" \in DOMAIN opts /\ opts.all_fatal)
ReqNameAt(k) ==
    IF "name" \in DOMAIN ReqTests[k + 1] THEN ReqTests[k + 1].name
    ELSE CASE k = 0 -> "test000" [] k = 1 -> "test001" [] k = 2 -> "test002"
           [] k = 3 -> "test003" [] k = 4 -> "test004" [] OTHER -> "?"
ReqSourceBytes ==
    CASE opts.source = Str(<<>>) -> Bytes(<<>>)
      [] opts.source = Str(<<233>>) -> Bytes(<<195, 169>>)
      [] opts.source = Bytes(<<0, 255>>) -> Bytes(<<0, 255>>)

\* What happened, read off the history of sandbox runs.
TestRuns == {p \in 1..Len(log) : log[p].stage = "test"}
CompileRuns == {p \in 1..Len(log) : log[p].stage = "compile"}
Returned == pc = "returned"
ResultTestsLen == IF "tests" \in DOMAIN result THEN Len(result.tests) ELSE 0
CompileSucceeded ==
    \E p \in CompileRuns : log[p].retcode = 0 /\ log[p].compiled # None
\* the test run at log position p ended in a fatal break
FatalRun(p) == log[p].retcode # 0 /\ ReqFatalAt(log[p].idx)
IsShortRecord(rec, k) ==
    /\ DOMAIN rec = {"name", "meta"}
    /\ rec.name = ReqNameAt(k)
    /\ rec.meta.status = "SHORT_CIRCUIT"
    /\ rec.meta.cg_mem = 0 /\ rec.meta.cg_oom_killed = 0
    /\ rec.meta.csw_forced = 0 /\ rec.meta.csw_voluntary = 0
    /\ rec.meta.exitcode = 0 /\ rec.meta.exitsig = 0
    /\ rec.meta.max_rss = 0 /\ rec.meta.time = 0 /\ rec.meta.time_wall = 0

\* C1: when the compile stage succeeds or the descriptor has no compiler, the
\* returned result's 'tests' list has as many entries as the request's 'tests'
\* list (an absent 'tests' key counts as no entries).
C1_TestsLengthMatches ==
    (Returned /\ (~lang.compiler \/ CompileSucceeded)) => ResultTestsLen = ReqN

\* C2 as claimed: once a test completes TIMED_OUT or RUNTIME_ERROR no later
\* test is executed, and every later entry of the returned result['tests'] is a
\* SHORT_CIRCUIT record with zero numeric fields and that test's name.
C2_ShortCircuitTailAlways ==
    \A p \in TestRuns :
        log[p].status \in {"TIMED_OUT", "RUNTIME_ERROR"} =>
            /\ p = Len(log)
            /\ Returned =>
                 \A k \in (log[p].idx + 1)..(ReqN - 1) :
                     IsShortRecord(result.tests[k + 1], k)

\* C2 as amended: the same, unless that test also ended with a non-zero
\* retcode under fatal/all_fatal; then the loop breaks and every later entry
\* stays the empty placeholder.
C2_ShortCircuitTail ==
    \A p \in TestRuns :
        log[p].status \in {"TIMED_OUT", "RUNTIME_ERROR"} =>
            /\ p = Len(log)
            /\ Returned =>
                 \A k \in (log[p].idx + 1)..(ReqN - 1) :
                     IF FatalRun(p) THEN result.tests[k + 1] = EmptyDict
                     ELSE IsShortRecord(result.tests[k + 1], k)

C2_Witness ==
    /\ Returned
    /\ \E p \in TestRuns :
         /\ log[p].status = "RUNTIME_ERROR"
         /\ ~FatalRun(p)
         /\ log[p].idx = 0
         /\ ReqN = 2
         /\ "name" \in DOMAIN ReqTests[2]
         /\ IsShortRecord(result.tests[2], 1)

\* C3 as claimed: every entry of the returned result['tests'] carries the
\* test's name (given, or "test" + index padded to 3 digits), also after a
\* fatal break.
C3_EveryEntryNamed ==
    (Returned /\ "tests" \in DOMAIN result) =>
        \A k \in 0..(ReqN - 1) :
            /\ "name" \in DOMAIN result.tests[k + 1]
            /\ result.tests[k + 1].name = ReqNameAt(k)

\* C3 as amended: every entry of an executed or short-circuited test carries
\* that name; the entries after a fatal break are empty dicts without 'name',
\* and only those are.
C3_RecordedEntriesNamed ==
    (Returned /\ "tests" \in DOMAIN result) =>
        \A k \in 0..(ReqN - 1) :
            IF \E p \in TestRuns : FatalRun(p) /\ log[p].idx < k
            THEN result.tests[k + 1] = EmptyDict
            ELSE /\ "name" \in DOMAIN result.tests[k + 1]
                 /\ result.tests[k + 1].name = ReqNameAt(k)

C3_Witness ==
    /\ Returned
    /\ ReqN = 2
    /\ "name" \in DOMAIN ReqTests[1]
    /\ "name" \notin DOMAIN ReqTests[2]
    /\ "tests" \in DOMAIN result
    /\ "name" \in DOMAIN result.tests[1]
    /\ "name" \in DOMAIN result.tests[2]
    /\ result.tests[1].name = "second"
    /\ result.tests[2].name = "test001"
    /\ result.tests[2].meta.status = "SHORT_CIRCUIT"

\* C4: a test that ends with a non-zero retcode under fatal/all_fatal is the
\* last one executed and ends the run; under neither flag a non-zero retcode
\* never stops the loop: the loop goes past that test, and a run that returns
\* before the end of the list returns on such a fatal test.
C4_FatalBreak ==
    /\ \A p \in TestRuns : FatalRun(p) => (p = Len(log) /\ Returned /\ i = log[p].idx)
    /\ \A p \in TestRuns :
         (log[p].retcode # 0 /\ ~ReqFatalAt(log[p].idx)) => i > log[p].idx
    /\ (Returned /\ "tests" \in DOMAIN result /\ i < ReqN) =>
         (Len(log) > 0 /\ log[Len(log)].stage = "test" /\ log[Len(log)].idx = i
          /\ FatalRun(Len(log)))

C4_Witness ==
    /\ Returned
    /\ Cardinality(TestRuns) = 2
    /\ \E p \in TestRuns : log[p].idx = 0 /\ log[p].retcode # 0 /\ ~ReqFatalAt(0)
    /\ \E p \in TestRuns : log[p].idx = 1 /\ FatalRun(p)

\* C5 as claimed: after a fatal break the tests that follow the breaking test
\* are absent from result['tests']: the list ends with the breaking test.
C5_TailAbsent ==
    \A p \in TestRuns :
        (FatalRun(p) /\ Returned) => Len(result.tests) = log[p].idx + 1

\* C5 as amended: after a fatal break result['tests'] keeps one entry per
\* requested test; the entries up to and including the breaking test are
\* records, the entries after it are empty dicts (no name, no meta).
C5_TailEmptyPlaceholders ==
    \A p \in TestRuns :
        (FatalRun(p) /\ Returned) =>
            /\ Len(result.tests) = ReqN
            /\ \A k \in 0..(ReqN - 1) :
                 (k > log[p].idx) <=> (result.tests[k + 1] = EmptyDict)

C5_Witness ==
    /\ Returned
    /\ ReqN = 2
    /\ \E p \in TestRuns : FatalRun(p) /\ log[p].idx = 0
    /\ result.tests[1] # EmptyDict
    /\ result.tests[2] = EmptyDict

\* C6: a compile stage that returns a non-zero retcode ends the pipeline: no
\* test is executed, result['compile'] is the compile stage's metadata as the
\* sandbox reported it, and the result has no 'tests' key.
C6_CompileFailureEnds ==
    \A p \in CompileRuns :
        log[p].retcode # 0 =>
            /\ TestRuns = {}
            /\ Returned
            /\ held = {}
            /\ DOMAIN result = {"compile"}
            /\ result.compile.exitcode = log[p].retcode
            /\ result.compile.meta.status = log[p].status
            /\ result.compile.stderr = log[p].stderr

C6_Witness ==
    /\ Returned
    /\ \E p \in CompileRuns : log[p].retcode # 0 /\ log[p].compiled # None
    /\ ReqN > 0

\* the bytes of "Cannot find result binary" occur in the compile stderr
MentionsCannotFind(b) ==
    \E k \in 1..(Len(b.v) - 24) :
        SubSeq(b.v, k, k + 24) =
            <<67, 97, 110, 110, 111, 116, 32, 102, 105, 110, 100, 32, 114, 101,
              115, 117, 108, 116, 32, 98, 105, 110, 97, 114, 121>>

\* C7: when compile returns retcode 0 and the pipeline ends without running
\* tests, "Cannot find result binary" was appended to the compile stderr; and
\* when compile returns retcode 0 and an artifact file was produced, of any
\* content, the test loop runs (for a request with at least one test).
C7_MissingBinaryOnly ==
    \A p \in CompileRuns :
        (log[p].retcode = 0 /\ Returned /\ ReqN > 0) =>
            /\ ("tests" \notin DOMAIN result) =>
                 MentionsCannotFind(result.compile.stderr)
            /\ (log[p].compiled # None) => "tests" \in DOMAIN result

\* C8: for a descriptor without compiler the result never has a 'compile' key
\* and every test's sandbox receives, as the artifact file, exactly the bytes
\* of the request's 'source'.
C8_SourceIsArtifact ==
    ~lang.compiler =>
        /\ "compile" \notin DOMAIN result
        /\ CompileRuns = {}
        /\ \A p \in TestRuns :
             /\ log[p].file.content = ReqSourceBytes
             /\ log[p].file.path = "compiled.pypy"

C8_Witness ==
    /\ ~lang.compiler
    /\ opts.source = Str(<<233>>)
    /\ Cardinality(TestRuns) = 2
    /\ Returned

\* C9: a request holds at most one sandbox at a time; the compile stage's
\* sandbox is released before any test starts; tests run in input order, each
\* one's sandbox released before the next test's is acquired.
C9_OneSandboxInOrder ==
    /\ Cardinality(held) <= 1
    /\ \A h \in held :
         IF h.stage = "compile" THEN log = <<>> /\ pc = "compile_box"
         ELSE /\ pc = "exec_box"
              /\ h.idx = i
              /\ \A p \in TestRuns : log[p].idx < h.idx
              /\ lang.compiler => CompileRuns = {1}
    /\ pc \in {"compile_box", "exec_box"} => held # {}
    /\ \A p \in CompileRuns : p = 1
    /\ \A p, q \in TestRuns : p < q => log[p].idx < log[q].idx

C9_Witness ==
    /\ lang.compiler
    /\ pc = "exec_box"
    /\ \E h \in held : h.stage = "test" /\ h.idx = 1
    /\ Len(log) = 2

\* Single-run and interactive requests together.
InitAll == Init \/ InitInteractive
NextAll == Next \/ NextInteractive
SpecAll == InitAll /\ [][NextAll]_vars

Ended == pc \in {"returned", "raised", "cancelled"}
InsideWithBlock ==
    pc \in {"compile_box", "exec_box", "prog_compile_box", "interact_compile_box",
            "prog_box", "both_boxes"}

\* C10: every sandbox handle the pipeline acquires is released on every way
\* out (return, exception in the run, exception between acquisition and run,
\* failed second acquisition of the interactive pair, cancellation): a request
\* that has ended holds no box, handles are held only inside the 'async with'
\* block that acquired them, and no box id is in two handles.
C10_AllReleased ==
    /\ Ended => held = {}
    /\ held # {} => InsideWithBlock
    /\ \A h1, h2 \in held : h1.box = h2.box => h1 = h2

\* an interactive request that ran its first test and then raised during the
\* second one
C10_Witness ==
    /\ pc = "raised"
    /\ DOMAIN lang = Roles
    /\ held = {}
    /\ i = 1
    /\ \E p \in TestRuns : log[p].idx = 0

\* ---------------------------------------------- interactive requests
\* What an interactive request asks for, read off the interact sub-request.
IReqTests ==
    IF "tests" \in DOMAIN opts.interact THEN opts.interact.tests ELSE <<EmptyDict>>
IReqN == Len(IReqTests)
IReqFatalAt(k) ==
    \/ ("fatal" \in DOMAIN IReqTests[k + 1] /\ IReqTests[k + 1].fatal)
    \/ ("all_fatal" \in DOMAIN opts.interact /\ opts.interact.all_fatal)
IReqNameAt(k) ==
    IF "name" \in DOMAIN IReqTests[k + 1] THEN IReqTests[k + 1].name
    ELSE CASE k = 0 -> "test000" [] k = 1 -> "test001" [] k = 2 -> "test002"
           [] k = 3 -> "test003" [] k = 4 -> "test004" [] OTHER -> "?"
\* the coupled run at log position p ended in a fatal break
IFatalRun(p) ==
    /\ (log[p].retcode # 0 \/ log[p].interact_retcode # 0)
    /\ IReqFatalAt(log[p].idx)
IHasTests(role) == "tests" \in DOMAIN result[role]
IIsShortRecord(rec, k) ==
    /\ DOMAIN rec = {"name", "meta"}
    /\ rec.name = IReqNameAt(k)
    /\ rec.meta.status = "SHORT_CIRCUIT"
    /\ rec.meta.exitcode = 0 /\ rec.meta.time = 0 /\ rec.meta.max_rss = 0
RoleCompileRuns(role) ==
    {p \in 1..Len(log) : log[p].stage = CompileStage(role)}
\* the role's compile stage ran and produced no binary
RoleCompileFailed(role) ==
    \E p \in RoleCompileRuns(role) : log[p].retcode # 0 \/ log[p].compiled = None

\* C11: in an interactive request, whenever tests are run, result.prog.tests
\* and result.interact.tests both exist and both have as many entries as the
\* interact sub-request's test list, whatever the outcomes of the tests.
C11_PairedLengths ==
    (IHasTests("prog") \/ IHasTests("interact") \/ TestRuns # {}) =>
        /\ IHasTests("prog") /\ IHasTests("interact")
        /\ Len(result.prog.tests) = IReqN
        /\ Len(result.interact.tests) = IReqN

\* a two-test request that broke after its first test
C11_Witness ==
    /\ Returned
    /\ IReqN = 2
    /\ Cardinality(TestRuns) = 1
    /\ IHasTests("prog")
    /\ Len(result.prog.tests) = 2
    /\ result.prog.tests[2] = EmptyDict

\* C12: the program and the interactor are each compiled whatever the other's
\* outcome, each one's compile metadata is recorded under its own key, and when
\* either compile stage produces no binary no test is executed and neither
\* sub-result has a 'tests' key.
C12_BothCompiled ==
    /\ \A role \in Roles : \A p \in RoleCompileRuns(role) :
         /\ "compile" \in DOMAIN result[role]
         /\ result[role].compile.exitcode = log[p].retcode
         /\ result[role].compile.meta.status = log[p].status
         /\ IF log[p].retcode = 0 /\ log[p].compiled = None
            THEN MentionsCannotFind(result[role].compile.stderr)
            ELSE result[role].compile.stderr = log[p].stderr
    /\ \A role \in Roles :
         (Returned /\ lang[role].compiler) => Cardinality(RoleCompileRuns(role)) = 1
    /\ (\E role \in Roles : RoleCompileFailed(role)) =>
         /\ TestRuns = {}
         /\ ~IHasTests("prog") /\ ~IHasTests("interact")

\* the program fails to compile, the interactor compiles all the same
C12_Witness ==
    /\ Returned
    /\ IReqN > 0
    /\ \E p \in RoleCompileRuns("prog") : log[p].retcode # 0
    /\ \E p \in RoleCompileRuns("interact") :
         log[p].retcode = 0 /\ log[p].compiled = Bytes(<<127, 69>>)
    /\ "compile" \in DOMAIN result.prog /\ "compile" \in DOMAIN result.interact
    /\ result.prog.compile # result.interact.compile

\* the k-th test was short-circuited: a SHORT_CIRCUIT record under both
\* sub-results and no sandbox run
IShortCircuited(k) ==
    /\ IIsShortRecord(result.prog.tests[k + 1], k)
    /\ IIsShortRecord(result.interact.tests[k + 1], k)
    /\ \A p \in TestRuns : log[p].idx # k
IEitherShort(k) ==
    \/ IIsShortRecord(result.prog.tests[k + 1], k)
    \/ IIsShortRecord(result.interact.tests[k + 1], k)
IProgFailedBefore(k) ==
    \E p \in TestRuns :
        log[p].idx < k /\ log[p].status \in {"TIMED_OUT", "RUNTIME_ERROR"}

\* C13 as claimed: in an interactive request a test is short-circuited (a
\* SHORT_CIRCUIT record under both sub-results, no sandbox launched) exactly
\* when an earlier executed test had a program status of TIMED_OUT or
\* RUNTIME_ERROR; the interactor's status alone never does it.
C13_ShortExactlyWhenProgFailed ==
    (Returned /\ IHasTests("prog") /\ IHasTests("interact")) =>
        \A k \in 0..(IReqN - 1) :
            /\ IShortCircuited(k) <=> IProgFailedBefore(k)
            /\ IEitherShort(k) => IShortCircuited(k)

\* C13 as amended: the same, unless an earlier test ended the loop with a
\* fatal break; the tests after a fatal break are neither executed nor
\* short-circuited.
C13_ShortUnlessBroken ==
    (Returned /\ IHasTests("prog") /\ IHasTests("interact")) =>
        \A k \in 0..(IReqN - 1) :
            /\ IShortCircuited(k) <=>
                 (IProgFailedBefore(k)
                  /\ ~\E p \in TestRuns : IFatalRun(p) /\ log[p].idx < k)
            /\ IEitherShort(k) => IShortCircuited(k)

\* the first test's program times out while its interactor is fine, the second
\* test is short-circuited
C13_Witness ==
    /\ Returned
    /\ IReqN = 2
    /\ \E p \in TestRuns :
         /\ log[p].idx = 0
         /\ log[p].status = "TIMED_OUT"
         /\ log[p].interact_status = "OK"
    /\ IShortCircuited(1)

\* C14: the interactive test loop breaks after an executed test if and only if
\* one of the two retcodes is non-zero and the test's 'fatal' or the interact
\* sub-request's 'all_fatal' is set; after the break no test is executed.
C14_InteractiveFatalBreak ==
    /\ \A p \in TestRuns :
         IFatalRun(p) => (p = Len(log) /\ Returned /\ i = log[p].idx)
    /\ \A p \in TestRuns : ~IFatalRun(p) => i > log[p].idx
    /\ (Returned /\ IHasTests("prog") /\ i < IReqN) =>
         (Len(log) > 0 /\ log[Len(log)].stage = "test" /\ log[Len(log)].idx = i
          /\ IFatalRun(Len(log)))

\* the interactor alone fails the first of two tests under 'fatal'
C14_Witness ==
    /\ Returned
    /\ IReqN = 2
    /\ i = 0
    /\ \E p \in TestRuns :
         /\ log[p].idx = 0
         /\ log[p].retcode = 0
         /\ log[p].interact_retcode # 0
         /\ IFatalRun(p)

\* C15: the seed input is optional: for every test that is not short-circuited,
\* also one without 'stdin' or with an empty one, once both sandboxes are held
\* input.txt is written and the coupled run can be launched and yield its pair
\* of records.
C15_SeedInputOptional ==
    pc = "both_boxes" => ENABLED InteractiveExecuteRun

\* ======================================================== HTTP front end
\* The two request handlers under json_msgpack_handler. A request starts in
\* pc "run_handler" or "interactive_handler" with the decoded payload in opts
\* (for an interactive request opts.prog and opts.interact), looks its
\* language(s) up and goes on with Lang.run / InteractiveLang.run; the wrapper
\* turns what comes back into the response.
HandlerLangNames == {"pypy", "C++23", "cobol99"}

RunRequests == {[lang |-> n] @@ o : n \in HandlerLangNames, o \in OptionBags}
InteractiveRequests ==
    {[prog |-> [lang |-> np] @@ op, interact |-> [lang |-> ni] @@ oi] :
       np \in HandlerLangNames, ni \in HandlerLangNames,
       op \in ProgOptionBags, oi \in InteractOptionBags}

\* camisole.languages.by_name misses: the KeyError it raises, whose text may
\* or may not quote the key
KeyErrors(key) == {[type |-> "KeyError", args |-> <<key>>],
                   [type |-> "KeyError", args |-> <<>>]}

\* run_handler: RuntimeError('Incorrect language {}'.format(lang_name))
IncorrectLanguage(lang_name) ==
    [type |-> "RuntimeError", args |-> <<"Incorrect language ", lang_name>>]

\* interactive_handler: the format argument 'lang_name' is not a name of that
\* function, evaluating it raises NameError before RuntimeError is built
IncorrectInteractiveLanguage ==
    [type |-> "NameError", args |-> <<"name 'lang_name' is not defined">>]

\* traceback.format_exc() inside 'except KeyError': the exception being
\* handled, chained after the one it was raised from
format_exc(context, exc) == <<context, exc>>

\* wrapper.error(code, msg) and wrapper.response(payload)
error(code, msg) == [code |-> code, payload |-> [success |-> FALSE, error |-> msg]]
success_response(res) == [code |-> 200, payload |-> res @@ [success |-> TRUE]]

InitHandler ==
    /\ opts \in RunRequests \cup InteractiveRequests
    /\ pc = IF "lang" \in DOMAIN opts THEN "run_handler" ELSE "interactive_handler"
    /\ lang = None
    /\ result = EmptyDict
    /\ binary = None
    /\ i = 0
    /\ is_shorted = FALSE
    /\ held = {}
    /\ root_tmp = "none"
    /\ log = <<>>
    /\ ServerLoaded

\* run_handler finds the class and calls lang.run()
RunHandlerFound ==
    /\ pc = "run_handler"
    /\ Lower(opts.lang) \in DOMAIN registry
    /\ lang' = DescriptorOf(registry[Lower(opts.lang)])
    /\ pc' = "start"
    /\ UNCHANGED <<opts, result, binary, i, is_shorted, held, root_tmp, log>>
    /\ UNCHANGED serverVars

\* run_handler: by_name raises KeyError, the handler raises RuntimeError, the
\* wrapper answers 500 with the formatted traceback
RunHandlerUnknown ==
    /\ pc = "run_handler"
    /\ Lower(opts.lang) \notin DOMAIN registry
    /\ \E ke \in KeyErrors(Lower(opts.lang)) :
         response' = error(500, format_exc(ke, IncorrectLanguage(Lower(opts.lang))))
    /\ pc' = "responded"
    /\ UNCHANGED <<lang, opts, result, binary, i, is_shorted, held, root_tmp, log>>
    /\ UNCHANGED <<registry, full_registry, registered>>

\* interactive_handler finds both classes, builds InteractiveLang and calls
\* its run()
InteractiveHandlerFound ==
    /\ pc = "interactive_handler"
    /\ Lower(opts.prog.lang) \in DOMAIN registry
    /\ Lower(opts.interact.lang) \in DOMAIN registry
    /\ lang' = [prog |-> DescriptorOf(registry[Lower(opts.prog.lang)]),
                interact |-> DescriptorOf(registry[Lower(opts.interact.lang)])]
    /\ result' = [prog |-> EmptyDict, interact |-> EmptyDict]
    /\ binary' = [prog |-> None, interact |-> None]
    /\ root_tmp' = [prog |-> "none", interact |-> "none"]
    /\ pc' = "prog_start"
    /\ UNCHANGED <<opts, i, is_shorted, held, log>>
    /\ UNCHANGED serverVars

\* interactive_handler: the first lookup that misses ends the handler
InteractiveHandlerUnknown ==
    /\ pc = "interactive_handler"
    /\ \E role \in Roles :
         /\ Lower(opts[role].lang) \notin DOMAIN registry
         /\ role = "interact" => Lower(opts.prog.lang) \in DOMAIN registry
         /\ \E ke \in KeyErrors(Lower(opts[role].lang)) :
              response' = error(500, format_exc(ke, IncorrectInteractiveLanguage))
    /\ pc' = "responded"
    /\ UNCHANGED <<lang, opts, result, binary, i, is_shorted, held, root_tmp, log>>
    /\ UNCHANGED <<registry, full_registry, registered>>

\* wrapper: the handler returned its result
Respond ==
    /\ pc = "returned"
    /\ response' = success_response(result)
    /\ pc' = "responded"
    /\ UNCHANGED <<lang, opts, result, binary, i, is_shorted, held, root_tmp, log>>
    /\ UNCHANGED <<registry, full_registry, registered>>

\* wrapper: the handler raised an Exception out of run()
RespondError ==
    /\ pc = "raised"
    /\ response' = error(500, <<[type |-> "Exception", args |-> <<>>]>>)
    /\ pc' = "responded"
    /\ UNCHANGED <<lang, opts, result, binary, i, is_shorted, held, root_tmp, log>>
    /\ UNCHANGED <<registry, full_registry, registered>>

NextHandler ==
    \/ RunHandlerFound
    \/ RunHandlerUnknown
    \/ InteractiveHandlerFound
    \/ InteractiveHandlerUnknown
    \/ Respond
    \/ RespondError
    \/ Next
    \/ NextInteractive

SpecHandler == InitHandler /\ [][NextHandler]_vars

\* the language names a request asks for, in lookup order
RequestedLangs ==
    IF "lang" \in DOMAIN opts THEN <<opts.lang>>
    ELSE <<opts.prog.lang, opts.interact.lang>>
Unregistered(n) == Lower(n) \notin DOMAIN registry
\* some exception of the traceback quotes the name
ErrorMentions(msg, n) ==
    \E e \in 1..Len(msg) : \E a \in 1..Len(msg[e].args) :
        msg[e].args[a] \in {n, Lower(n)}

\* C16: a request that names an unregistered language (the single-run
\* request's, or the prog or interact language of an interactive request) is
\* answered with success false and an error that mentions the first
\* unregistered name it asked for, and no compile or test stage runs.
C16_UnknownLanguageNamed ==
    \A k \in 1..Len(RequestedLangs) :
        (/\ Unregistered(RequestedLangs[k])
         /\ \A j \in 1..(k - 1) : ~Unregistered(RequestedLangs[j])
         /\ pc \notin {"run_handler", "interactive_handler"}) =>
            /\ pc = "responded"
            /\ response.payload.success = FALSE
            /\ ErrorMentions(response.payload.error, RequestedLangs[k])
            /\ log = <<>> /\ held = {} /\ lang = None

\* ========================================================== PipelineLang
\* A pipeline descriptor has no compiler, interpreter or source_ext of its
\* own, only sub_langs. While run_compilation walks the chain, i is its loop
\* index and binary the last stage's output.
PipelineLangs ==
    {[name |-> "PipelineLang", source_ext |-> "", compiler |-> FALSE,
      interpreter |-> FALSE, sub_langs |-> subs] :
       subs \in UNION {[1..n -> Langs] : n \in 0..MaxChain}}

PipelineTestLists ==
    UNION {[1..n -> {EmptyDict, [fatal |-> TRUE]}] : n \in 0..MaxTests}
PipelineOptionBags ==
    {[source |-> s] @@ OptKey("tests", ht, ts) :
       s \in Sources, ht \in BOOLEAN, ts \in PipelineTestLists}

\* what a sub-stage's compile run can report: as CompileOutcomes, with a
\* second output to tell the stages' artifacts apart
PipelineCompileOutcomes ==
    CompileOutcomes \cup
        {[retcode |-> 0, stderr |-> Bytes(<<>>), compiled |-> Bytes(<<35, 33>>)]}

\* the 'source' local at the head of iteration k: force_bytes of the request's
\* source before the first stage, 'source = binary' after every stage
\* faulty variant: every stage compiles the request's source
pipeline_source_Original(o, k, bin) == force_bytes(o.source)
pipeline_source(o, k, bin) == IF k = 0 THEN force_bytes(o.source) ELSE bin

\* one iteration of run_compilation's loop after 'await lang.compile()':
\* 'go_on' tells whether the chain continues with 'binary' as the next source
\* faulty variant: a non-zero retcode does not end the chain
pipeline_stage_NoRetcodeCheck(res, cretcode, info, bin) ==
    LET r1 == [compile |-> info] @@ res
    IN  IF bin = None THEN [result |-> r1, binary |-> None, go_on |-> FALSE]
        ELSE [result |-> r1, binary |-> bin, go_on |-> TRUE]
pipeline_stage(res, cretcode, info, bin) ==
    LET r1 == [compile |-> info] @@ res
        sep == IF StripTruthy(r1.compile.stderr) THEN NewlineNewline ELSE <<>>
        appended == Bytes(r1.compile.stderr.v \o sep \o CannotFindResultBinary)
    IN  IF cretcode # 0 THEN [result |-> r1, binary |-> None, go_on |-> FALSE]
        ELSE IF bin = None
             THEN [result |-> [r1 EXCEPT !.compile.stderr = appended],
                   binary |-> None, go_on |-> FALSE]
             ELSE [result |-> r1, binary |-> bin, go_on |-> TRUE]

InitPipeline ==
    /\ lang \in PipelineLangs
    /\ opts \in PipelineOptionBags
    /\ pc = "pipeline_loop"
    /\ result = EmptyDict
    /\ binary = None
    /\ i = 0
    /\ is_shorted = FALSE
    /\ held = {}
    /\ root_tmp = "none"
    /\ log = <<>>
    /\ ServerLoaded

\* sub_langs is empty: the loop body never runs and 'return binary' reads a
\* local that was never bound (UnboundLocalError)
PipelineEmpty ==
    /\ pc = "pipeline_loop"
    /\ Len(lang.sub_langs) = 0
    /\ pc' = "raised"
    /\ UNCHANGED <<lang, opts, result, binary, i, is_shorted, held, root_tmp, log>>
    /\ UNCHANGED serverVars

\* the sub-descriptor has no compiler: its compile() raises RuntimeError
PipelineNoCompiler ==
    /\ pc = "pipeline_loop"
    /\ i < Len(lang.sub_langs)
    /\ ~lang.sub_langs[i + 1].compiler
    /\ pc' = "raised"
    /\ UNCHANGED <<lang, opts, result, binary, i, is_shorted, held, root_tmp, log>>
    /\ UNCHANGED serverVars

\* the sub-stage's Lang.compile up to 'async with isolator'
PipelineCompileAcquire ==
    /\ pc = "pipeline_loop"
    /\ i < Len(lang.sub_langs)
    /\ lang.sub_langs[i + 1].compiler
    /\ \E b \in FreeBoxes(held) : held' = IsolatorEnter(held, b, "compile", i)
    /\ root_tmp' = "live"
    /\ pc' = "pipeline_compile_box"
    /\ UNCHANGED <<lang, opts, result, binary, i, is_shorted, log>>
    /\ UNCHANGED serverVars

PipelineCompileAcquireFail ==
    /\ pc = "pipeline_loop"
    /\ i < Len(lang.sub_langs)
    /\ lang.sub_langs[i + 1].compiler
    /\ root_tmp' = "live"
    /\ pc' = "raised"
    /\ UNCHANGED <<lang, opts, result, binary, i, is_shorted, held, log>>
    /\ UNCHANGED serverVars

\* the body of the sub-stage's 'async with', then the rest of the iteration;
\* after the last stage run_compilation returns and Lang.run goes on
PipelineCompileRun ==
    /\ pc = "pipeline_compile_box"
    /\ \E out \in PipelineCompileOutcomes :
         LET info == IsolatorInfo(IF out.retcode = 0 THEN "OK" ELSE "RUNTIME_ERROR",
                                  out.retcode, out.stderr)
             st == pipeline_stage(result, out.retcode, info, out.compiled)
         IN  /\ log' = Append(log, [stage |-> "compile", idx |-> i,
                                    file |-> [path |-> source_filename(
                                                           lang.sub_langs[i + 1]),
                                              content |-> pipeline_source(
                                                              opts, i, binary)],
                                    retcode |-> out.retcode,
                                    status |-> info.meta.status,
                                    stderr |-> out.stderr,
                                    compiled |-> out.compiled])
             /\ IF st.go_on /\ i + 1 < Len(lang.sub_langs)
                THEN /\ result' = st.result
                     /\ binary' = st.binary
                     /\ i' = i + 1
                     /\ pc' = "pipeline_loop"
                     /\ UNCHANGED is_shorted
                ELSE EnterRunTests(st.result, st.binary)
    /\ held' = async_with_exit(held, "compile", FALSE)
    /\ root_tmp' = "cleaned"
    /\ UNCHANGED <<lang, opts>>
    /\ UNCHANGED serverVars

PipelineCompileRaise ==
    /\ pc = "pipeline_compile_box"
    /\ held' = async_with_exit(held, "compile", TRUE)
    /\ pc' = "raised"
    /\ UNCHANGED <<lang, opts, result, binary, i, is_shorted, root_tmp, log>>
    /\ UNCHANGED serverVars

PipelineCancel ==
    /\ pc = "pipeline_compile_box"
    /\ held' = async_with_exit(held, "compile", TRUE)
    /\ pc' = "cancelled"
    /\ UNCHANGED <<lang, opts, result, binary, i, is_shorted, root_tmp, log>>
    /\ UNCHANGED serverVars

NextPipeline ==
    \/ PipelineEmpty
    \/ PipelineNoCompiler
    \/ PipelineCompileAcquire
    \/ PipelineCompileAcquireFail
    \/ PipelineCompileRun
    \/ PipelineCompileRaise
    \/ PipelineCancel
    \/ TestShort
    \/ ExecuteAcquire
    \/ ExecuteAcquireFail
    \/ ExecuteRun
    \/ ExecuteRaise
    \/ Cancel
    \/ ImplicitCleanup

SpecPipeline == InitPipeline /\ [][NextPipeline]_vars

\* the sub-stage run at log position p aborted the chain
StageFailed(p) == log[p].retcode # 0 \/ log[p].compiled = None

\* C17: in the pipeline meta-language the sub-descriptors are compiled in
\* order, and the first sub-stage that returns a non-zero retcode or produces
\* no binary is the last thing that runs: no later sub-stage, no test, the
\* request returns and result['compile'] is that sub-stage's metadata.
C17_FirstFailureAborts ==
    /\ \A p \in CompileRuns :
         /\ log[p].idx = p - 1
         /\ log[p].file.path = source_filename(lang.sub_langs[p])
    /\ \A p \in CompileRuns :
         StageFailed(p) =>
            /\ p = Len(log)
            /\ Returned
            /\ held = {}
            /\ DOMAIN result = {"compile"}
            /\ result.compile.exitcode = log[p].retcode
            /\ result.compile.meta.status = log[p].status
            /\ IF log[p].retcode = 0
               THEN MentionsCannotFind(result.compile.stderr)
               ELSE result.compile.stderr = log[p].stderr

\* a chain of two whose second stage fails after the first one succeeded
C17_Witness ==
    /\ Returned
    /\ Len(lang.sub_langs) = 2
    /\ Len(log) = 2
    /\ ~StageFailed(1)
    /\ log[2].stage = "compile" /\ log[2].retcode # 0
    /\ log[2].compiled # None
    /\ ReqN > 0

\* C18: in the pipeline meta-language the first sub-stage compiles the
\* request's source, sub-stage k+1 compiles exactly the output bytes of
\* sub-stage k, and every test executes the output of the final sub-stage.
C18_ChainFeedsForward ==
    /\ \A p \in CompileRuns :
         log[p].file.content =
             IF p = 1 THEN ReqSourceBytes ELSE log[p - 1].compiled
    /\ \A t \in TestRuns :
         /\ CompileRuns = 1..Len(lang.sub_langs)
         /\ log[t].file.content = log[Len(lang.sub_langs)].compiled
         /\ log[t].file.path = "compiled"

\* a chain of two with different stage outputs, run to the end of its tests
C18_Witness ==
    /\ Returned
    /\ Len(lang.sub_langs) = 2
    /\ opts.source = Str(<<233>>)
    /\ CompileRuns = {1, 2}
    /\ log[1].compiled = Bytes(<<127, 69>>)
    /\ log[2].compiled = Bytes(<<35, 33>>)
    /\ Cardinality(TestRuns) = 2

\* the two kinds of record run_tests writes
IsShortCircuitRecord(rec) ==
    "meta" \in DOMAIN rec /\ rec.meta.status = "SHORT_CIRCUIT"
IsCompletedRecord(rec) ==
    "meta" \in DOMAIN rec /\ rec.meta.status # "SHORT_CIRCUIT"

\* C19: the records of result['tests'] share one key schema: a short-circuited
\* record has every key a completed test's record has, the captured stdout and
\* stderr among them, and the same metadata keys.
C19_UniformTestSchema ==
    "tests" \in DOMAIN result =>
        \A j, k \in 1..Len(result.tests) :
            (/\ IsShortCircuitRecord(result.tests[j])
             /\ IsCompletedRecord(result.tests[k])) =>
                /\ DOMAIN result.tests[k] \subseteq DOMAIN result.tests[j]
                /\ DOMAIN result.tests[k].meta \subseteq DOMAIN result.tests[j].meta

\* ======================================================= registration
\* Importing language modules: every class statement that derives from Lang
\* runs Lang.__init_subclass__ once. The classes that can be defined: the two
\* of camisole/languages, two more whose names collide with "pypy" when
\* lowercased, and two base classes defined with register=False.
ClassPool ==
    {CXX23Class, PypyClass,
     [qualname |-> "PyPy", kwname |-> "", register |-> TRUE],
     [qualname |-> "Pypy3", kwname |-> "PYPY", register |-> TRUE],
     [qualname |-> "PipelineLang", kwname |-> "", register |-> FALSE],
     [qualname |-> "PypyBase", kwname |-> "pypy", register |-> FALSE]}

InitRegistry ==
    /\ registry = EmptyDict
    /\ full_registry = EmptyDict
    /\ registered = <<>>
    /\ response = None
    /\ pc = "import"
    /\ lang = None
    /\ opts = EmptyDict
    /\ result = EmptyDict
    /\ binary = None
    /\ i = 0
    /\ is_shorted = FALSE
    /\ held = {}
    /\ root_tmp = "none"
    /\ log = <<>>

\* one class statement: Lang.__init_subclass__(cls, register, name)
InitSubclass ==
    /\ pc = "import"
    /\ Len(registered) < MaxRegistrations
    /\ \E c \in ClassPool, accessible \in BOOLEAN :
         /\ \A p \in 1..Len(registered) : registered[p].cls # c
         /\ full_registry' = full_registry_after(full_registry, c)
         /\ registry' = registry_after(registry, c, accessible)
         /\ registered' = Append(registered, [cls |-> c, accessible |-> accessible])
    /\ UNCHANGED <<lang, opts, pc, result, binary, i, is_shorted, held, root_tmp,
                   log, response>>

NextRegistry == InitSubclass

SpecRegistry == InitRegistry /\ [][NextRegistry]_vars

\* the positions of the history that registered under the key
Registrations(key) ==
    {p \in 1..Len(registered) :
        registered[p].cls.register /\ Lower(cls_name(registered[p].cls)) = key}
LoadedRegistrations(key) ==
    {p \in Registrations(key) : registered[p].accessible}
RegisteredKeys ==
    {Lower(cls_name(registered[p].cls)) :
        p \in {q \in 1..Len(registered) : registered[q].cls.register}}
Last(ps) == CHOOSE p \in ps : \A q \in ps : q <= p

\* C20 as claimed: for every key registered more than once, the filtered and
\* the unfiltered registry both map the key to the class registered last.
C20_LastWinsInBoth ==
    \A key \in RegisteredKeys :
        Cardinality(Registrations(key)) > 1 =>
            /\ key \in DOMAIN full_registry
            /\ full_registry[key] = registered[Last(Registrations(key))].cls.qualname
            /\ key \in DOMAIN registry
            /\ registry[key] = registered[Last(Registrations(key))].cls.qualname

\* C20 as amended: the unfiltered registry maps the key to the class
\* registered last; the filtered registry maps it to the last registered class
\* whose required binaries were all executable, and has no entry for the key
\* when no such class was registered.
C20_LastLoadedWins ==
    \A key \in RegisteredKeys :
        Cardinality(Registrations(key)) > 1 =>
            /\ key \in DOMAIN full_registry
            /\ full_registry[key] = registered[Last(Registrations(key))].cls.qualname
            /\ IF LoadedRegistrations(key) = {} THEN key \notin DOMAIN registry
               ELSE /\ key \in DOMAIN registry
                    /\ registry[key] =
                         registered[Last(LoadedRegistrations(key))].cls.qualname

\* "pypy" registered three times, the last class without its binary, the two
\* before it with theirs: the registries disagree
C20_Witness ==
    /\ Cardinality(Registrations("pypy")) = 3
    /\ ~registered[3].accessible
    /\ registered[1].accessible /\ registered[2].accessible
    /\ registry["pypy"] = registered[2].cls.qualname
    /\ full_registry["pypy"] = registered[3].cls.qualname

\* C21: once Lang.compile has been left, by return, by an exception (of the
\* sandbox acquisition, the source write or the sandboxed run) or by
\* cancellation, the host-side /tmp directory it created has been removed.
C21_TmpCleanedOnExit ==
    pc # "compile_box" => root_tmp # "live"

\* the seed input the interact sub-request gives test k
IReqInputAt(k) ==
    IF "stdin" \in DOMAIN IReqTests[k + 1] /\ IReqTests[k + 1].stdin = Str(<<120>>)
    THEN Bytes(<<120>>) ELSE None

\* C22: in an interactive run the tests that are executed, the point where the
\* loop breaks and the names in both sub-results follow from the interact
\* sub-request (its 'tests', their 'name', 'stdin' and 'fatal', its
\* 'all_fatal') and the sandbox outcomes alone, whatever 'tests' and
\* 'all_fatal' the prog sub-request carries.
C22_InteractAuthoritative ==
    /\ \A role \in Roles :
         IHasTests(role) =>
            /\ Len(result[role].tests) = IReqN
            /\ \A k \in 0..(IReqN - 1) :
                 "name" \in DOMAIN result[role].tests[k + 1] =>
                     result[role].tests[k + 1].name = IReqNameAt(k)
    /\ \A p \in TestRuns :
         /\ log[p].idx < IReqN
         /\ log[p].input_file.content = IReqInputAt(log[p].idx)
         /\ \A q \in TestRuns : q < p => log[q].idx < log[p].idx
         /\ IF IFatalRun(p) THEN p = Len(log) /\ Returned /\ i = log[p].idx
            ELSE i > log[p].idx
    /\ (Returned /\ IHasTests("prog")) =>
         \A k \in 0..(IReqN - 1) :
             (result.prog.tests[k + 1] = EmptyDict) <=>
                 \E p \in TestRuns : IFatalRun(p) /\ log[p].idx < k

\* the prog sub-request has one named fatal test and all_fatal, the interact
\* sub-request two plain tests: both run, the first one's non-zero retcodes
\* do not break the loop, the names are the interact side's defaults
C22_Witness ==
    /\ Returned
    /\ "tests" \in DOMAIN opts.prog
    /\ opts.prog.all_fatal
    /\ IReqN = 2
    /\ ~IReqFatalAt(0) /\ ~IReqFatalAt(1)
    /\ Cardinality(TestRuns) = 2
    /\ \E p \in TestRuns : log[p].idx = 0 /\ log[p].retcode # 0
    /\ result.prog.tests[1].name = "test000"
    /\ result.interact.tests[2].name = "test001"

\* the test run at log position p ended TIMED_OUT or RUNTIME_ERROR
ShortingRun(p) == log[p].status \in {"TIMED_OUT", "RUNTIME_ERROR"}

\* C23: in a single run a test that ends with another status (OK, SIGNALED),
\* whatever its retcode, under neither 'fatal' nor 'all_fatal' changes nothing
\* for the tests after it: the flag stays unset, no sandbox is held when the
\* loop goes on, and the next test of the list is executed in a sandbox of
\* its own; and the flag is set in every state that follows a TIMED_OUT or
\* RUNTIME_ERROR test, to the end of the request.
C23_OtherStatusNoEffect ==
    /\ (\E p \in TestRuns : ShortingRun(p)) <=> is_shorted
    /\ pc = "loop" => held = {}
    /\ \A p \in TestRuns :
         (~ShortingRun(p) /\ ~ReqFatalAt(log[p].idx)) =>
            /\ i > log[p].idx
            /\ (pc = "exec_box" /\ i = log[p].idx + 1) =>
                   \E h \in held : h.stage = "test" /\ h.idx = i
            /\ (Returned /\ log[p].idx + 1 < ReqN) =>
                   \E q \in TestRuns : q = p + 1 /\ log[q].idx = log[p].idx + 1

\* the first test is killed by a signal with a non-zero retcode and no fatal
\* flag, the second one runs; it times out, and the flag is set at the end
C23_Witness ==
    /\ Returned
    /\ ReqN = 2
    /\ ~ReqFatalAt(0)
    /\ \E p \in TestRuns :
         log[p].idx = 0 /\ log[p].status = "SIGNALED" /\ log[p].retcode # 0
    /\ \E q \in TestRuns : log[q].idx = 1 /\ log[q].status = "TIMED_OUT"
    /\ is_shorted

====
